---- MODULE Spec2Model ----
(***************************************************************************)
(* The core of condb.py: the session store (load_sessions, save_session),  *)
(* the statistics over the session collection, and the timing primitives   *)
(* PracticeTimer, CountdownTimer and Metronome.                            *)
(* Each class is modelled as a record holding its attributes               *)
(* under the names the source gives them; the background threads that      *)
(* CountdownTimer.start and Metronome.start spawn are modelled one step    *)
(* per attribute read or write, so every interleaving with the control     *)
(* thread that the interpreter can produce is a behaviour of the model.    *)
(***************************************************************************)
EXTENDS Integers, Sequences, FiniteSets, TLC

\* ------------------------------------------------------------------------
\* Bounds of the model
\* ------------------------------------------------------------------------
\* largest seconds argument given to CountdownTimer.set_time
MaxSeconds == 2
\* number of threads one CountdownTimer or Metronome may spawn in a behaviour
MaxThreads == 2
\* number of calls the control thread makes on a CountdownTimer
MaxOps == 4

VARIABLES
    countdown,   \* CountdownTimer attributes: total_seconds, running, thread
    cthreads,    \* the threads spawned by CountdownTimer.start, with their locals
    calls,       \* callbacks invoked so far, in order (update_callback / finished_callback)
    ctl,         \* calls made so far by the control thread on the CountdownTimer
    metronome,   \* Metronome attributes: bpm, running, thread
    mthreads,    \* the threads spawned by Metronome.start, with their locals
    mctl,        \* the control thread's position in Metronome.stop, and what it has called
    ticks,       \* number of "Tick" lines printed so far
    stale,       \* sleeps begun since the last set_bpm with an interval other than 60/bpm
    practice,    \* PracticeTimer attributes: start_time, total_time, running
    now,         \* the value time.time() returns
    active,      \* clock seconds that passed while the PracticeTimer was running, since reset
    plast,       \* the last PracticeTimer call: its name, whether it found nothing to do, its result
    sessions,    \* the session collection in memory (MusicApp.sessions), a list of dicts
    file,        \* the content of SESSIONS_FILE
    out          \* the last call on the store or the statistics: its arguments and what it gave

cvars == <<countdown, cthreads, calls, ctl>>
mvars == <<metronome, mthreads, mctl, ticks, stale>>
pvars == <<practice, now, active, plast>>
svars == <<sessions, file, out>>
vars == <<cvars, mvars, pvars, svars>>

\* what the operations of one object leave alone: the other objects
CountdownFrame == UNCHANGED <<mvars, pvars, svars>>
MetronomeFrame == UNCHANGED <<cvars, pvars, svars>>
PracticeFrame == UNCHANGED <<cvars, mvars, svars>>
StoreFrame == UNCHANGED <<cvars, mvars, pvars>>

\* Python's None and a present value, for attributes that are either
None == <<>>
Some(x) == <<x>>

ThreadIds == 1..MaxThreads

\* ------------------------------------------------------------------------
\* CountdownTimer.format_time
\* ------------------------------------------------------------------------
Digit == <<"0", "1", "2", "3", "4", "5", "6", "7", "8", "9">>

RECURSIVE Decimal(_)
\* str(n) for n >= 0
Decimal(n) == IF n < 10 THEN Digit[n + 1]
              ELSE Decimal(n \div 10) \o Digit[(n % 10) + 1]

\* the format spec ":02": zero-padded to a minimum width of two, sign included
Format02(n) ==
    IF n < 0 THEN "-" \o Decimal(-n)
    ELSE IF n < 10 THEN "0" \o Decimal(n)
    ELSE Decimal(n)

\* format_time with the hours written as they are, without the ":02"
format_time_plain_hours(seconds) ==
    LET h == seconds \div 3600
        m == (seconds % 3600) \div 60
        s == seconds % 60
    IN  Decimal(h) \o ":" \o Format02(m) \o ":" \o Format02(s)

format_time(seconds) ==
    LET h == seconds \div 3600
        m == (seconds % 3600) \div 60
        s == seconds % 60
    IN  Format02(h) \o ":" \o Format02(m) \o ":" \o Format02(s)

\* ------------------------------------------------------------------------
\* CountdownTimer
\* ------------------------------------------------------------------------
CountdownInit ==
    /\ countdown = [total_seconds |-> 0, running |-> FALSE, thread |-> None]
    /\ cthreads = [t \in ThreadIds |-> [pc |-> "unborn", tmp |-> 0, formatted |-> ""]]
    /\ calls = <<>>
    /\ ctl = <<>>

\* the arguments the control thread passes to set_time
SetTimeInputs == {<<0, 0, s>> : s \in 0..MaxSeconds}

CtlCall(op, arg) == [op |-> op, arg |-> arg]

set_time(hours, minutes, seconds) ==
    /\ Len(ctl) < MaxOps
    /\ countdown' = [countdown EXCEPT
                        !.total_seconds = hours * 3600 + minutes * 60 + seconds]
    /\ ctl' = Append(ctl, CtlCall("set_time", <<hours, minutes, seconds>>))
    /\ UNCHANGED <<cthreads, calls>>
    /\ CountdownFrame

\* the thread object start() creates: the lowest thread not yet spawned
NextThread == CHOOSE t \in ThreadIds :
                 /\ cthreads[t].pc = "unborn"
                 /\ \A u \in ThreadIds : cthreads[u].pc = "unborn" => t <= u

\* start() called while running: returns at once
CountdownStartNoop ==
    /\ Len(ctl) < MaxOps
    /\ countdown.running
    /\ ctl' = Append(ctl, CtlCall("start", <<>>))
    /\ UNCHANGED <<countdown, cthreads, calls>>
    /\ CountdownFrame

\* start() called while not running: sets the flag and starts a thread on run()
CountdownStartSpawn ==
    /\ Len(ctl) < MaxOps
    /\ ~countdown.running
    /\ \E t \in ThreadIds : cthreads[t].pc = "unborn"
    /\ countdown' = [countdown EXCEPT !.running = TRUE, !.thread = Some(NextThread)]
    /\ cthreads' = [cthreads EXCEPT ![NextThread].pc = "while_total"]
    /\ ctl' = Append(ctl, CtlCall("start", <<>>))
    /\ UNCHANGED calls
    /\ CountdownFrame

CountdownStart == CountdownStartNoop \/ CountdownStartSpawn

\* stop(); the log keeps how many callbacks had been made and what
\* total_seconds was when it was called
CountdownStop ==
    /\ Len(ctl) < MaxOps
    /\ countdown' = [countdown EXCEPT !.running = FALSE]
    /\ ctl' = Append(ctl, CtlCall("stop", <<Len(calls), countdown.total_seconds>>))
    /\ UNCHANGED <<cthreads, calls>>
    /\ CountdownFrame

\* the loop test written total_seconds >= 0: one iteration too many
RunWhileTotalOffByOne(t) ==
    /\ cthreads[t].pc = "while_total"
    /\ cthreads' = [cthreads EXCEPT ![t].pc =
                       IF countdown.total_seconds >= 0 THEN "while_running"
                       ELSE "if_running"]
    /\ UNCHANGED <<countdown, calls, ctl>>
    /\ CountdownFrame

\* run(), line 203, left operand: self.total_seconds > 0
RunWhileTotal(t) ==
    /\ cthreads[t].pc = "while_total"
    /\ cthreads' = [cthreads EXCEPT ![t].pc =
                       IF countdown.total_seconds > 0 THEN "while_running"
                       ELSE "if_running"]
    /\ UNCHANGED <<countdown, calls, ctl>>
    /\ CountdownFrame

\* run(), line 203, right operand: self.running
RunWhileRunning(t) ==
    /\ cthreads[t].pc = "while_running"
    /\ cthreads' = [cthreads EXCEPT ![t].pc =
                       IF countdown.running THEN "sleep" ELSE "if_running"]
    /\ UNCHANGED <<countdown, calls, ctl>>
    /\ CountdownFrame

\* run(), lines 204-205: time.sleep(1), then the read of self.total_seconds
\* that begins the augmented assignment
RunSleep(t) ==
    /\ cthreads[t].pc = "sleep"
    /\ cthreads' = [cthreads EXCEPT ![t].pc = "store",
                                    ![t].tmp = countdown.total_seconds]
    /\ UNCHANGED <<countdown, calls, ctl>>
    /\ CountdownFrame

\* run(), line 205: the write that ends self.total_seconds -= 1
RunDecrement(t) ==
    /\ cthreads[t].pc = "store"
    /\ countdown' = [countdown EXCEPT !.total_seconds = cthreads[t].tmp - 1]
    /\ cthreads' = [cthreads EXCEPT ![t].pc = "format", ![t].tmp = 0]
    /\ UNCHANGED <<calls, ctl>>
    /\ CountdownFrame

\* run(), line 206: formatted = self.format_time(self.total_seconds)
RunFormat(t) ==
    /\ cthreads[t].pc = "format"
    /\ cthreads' = [cthreads EXCEPT ![t].pc = "update",
                       ![t].formatted = format_time(countdown.total_seconds)]
    /\ UNCHANGED <<countdown, calls, ctl>>
    /\ CountdownFrame

Callback(t, kind, arg) == [by |-> t, kind |-> kind, arg |-> arg]

\* run(), line 207: update_callback(formatted)
RunUpdate(t) ==
    /\ cthreads[t].pc = "update"
    /\ calls' = Append(calls, Callback(t, "update", cthreads[t].formatted))
    /\ cthreads' = [cthreads EXCEPT ![t].pc = "while_total", ![t].formatted = ""]
    /\ UNCHANGED <<countdown, ctl>>
    /\ CountdownFrame

\* run(), line 209: if self.running
RunIfRunning(t) ==
    /\ cthreads[t].pc = "if_running"
    /\ cthreads' = [cthreads EXCEPT ![t].pc =
                       IF countdown.running THEN "finished" ELSE "clear"]
    /\ UNCHANGED <<countdown, calls, ctl>>
    /\ CountdownFrame

\* run(), line 210: finished_callback()
RunFinished(t) ==
    /\ cthreads[t].pc = "finished"
    /\ calls' = Append(calls, Callback(t, "finished", ""))
    /\ cthreads' = [cthreads EXCEPT ![t].pc = "clear"]
    /\ UNCHANGED <<countdown, ctl>>
    /\ CountdownFrame

\* run(), line 211: self.running = False, and the thread ends
RunClear(t) ==
    /\ cthreads[t].pc = "clear"
    /\ countdown' = [countdown EXCEPT !.running = FALSE]
    /\ cthreads' = [cthreads EXCEPT ![t].pc = "done"]
    /\ UNCHANGED <<calls, ctl>>
    /\ CountdownFrame

CountdownSetTime == \E a \in SetTimeInputs : set_time(a[1], a[2], a[3])
CountdownWhileTotal == \E t \in ThreadIds : RunWhileTotal(t)
CountdownWhileRunning == \E t \in ThreadIds : RunWhileRunning(t)
CountdownSleep == \E t \in ThreadIds : RunSleep(t)
CountdownDecrement == \E t \in ThreadIds : RunDecrement(t)
CountdownFormat == \E t \in ThreadIds : RunFormat(t)
CountdownUpdate == \E t \in ThreadIds : RunUpdate(t)
CountdownIfRunning == \E t \in ThreadIds : RunIfRunning(t)
CountdownFinished == \E t \in ThreadIds : RunFinished(t)
CountdownClear == \E t \in ThreadIds : RunClear(t)

CountdownNext ==
    \/ CountdownSetTime
    \/ CountdownStartNoop
    \/ CountdownStartSpawn
    \/ CountdownStop
    \/ CountdownWhileTotal
    \/ CountdownWhileRunning
    \/ CountdownSleep
    \/ CountdownDecrement
    \/ CountdownFormat
    \/ CountdownUpdate
    \/ CountdownIfRunning
    \/ CountdownFinished
    \/ CountdownClear

\* the same without stop(): the behaviours of a countdown that is never stopped
CountdownRunNext ==
    \/ CountdownSetTime
    \/ CountdownStartNoop
    \/ CountdownStartSpawn
    \/ CountdownWhileTotal
    \/ CountdownWhileRunning
    \/ CountdownSleep
    \/ CountdownDecrement
    \/ CountdownFormat
    \/ CountdownUpdate
    \/ CountdownIfRunning
    \/ CountdownFinished
    \/ CountdownClear

\* a CountdownTimer whose time has been set to MaxSeconds and that has not
\* been started; the log of calls begins here
CancelInit ==
    /\ countdown = [total_seconds |-> MaxSeconds, running |-> FALSE, thread |-> None]
    /\ cthreads = [t \in ThreadIds |-> [pc |-> "unborn", tmp |-> 0, formatted |-> ""]]
    /\ calls = <<>>
    /\ ctl = <<>>

\* the steps of the threads running run()
CountdownThreadNext ==
    \/ CountdownWhileTotal
    \/ CountdownWhileRunning
    \/ CountdownSleep
    \/ CountdownDecrement
    \/ CountdownFormat
    \/ CountdownUpdate
    \/ CountdownIfRunning
    \/ CountdownFinished
    \/ CountdownClear

\* start() and stop() from the control thread, and the threads
CancelNext ==
    \/ CountdownStartNoop
    \/ CountdownStartSpawn
    \/ CountdownStop
    \/ CountdownThreadNext

\* arguments of set_time: hours of one, two and three digits (TemporizadorTab
\* offers 0..24, the class takes any), minutes and seconds within 0..59
FormatHours == {0, 1, 9, 10, 99, 100}
FormatMinutes == {0, 1, 59}
FormatSeconds == {0, 1, 2, 59}

\* a countdown after set_time(h, m, s), start(), and the first sleep and
\* decrement of its thread
FormatInit ==
    \E h \in FormatHours : \E m \in FormatMinutes : \E s \in FormatSeconds :
        /\ h * 3600 + m * 60 + s > 0
        /\ countdown = [total_seconds |-> h * 3600 + m * 60 + s - 1,
                        running |-> TRUE, thread |-> Some(1)]
        /\ cthreads = [t \in ThreadIds |->
                          IF t = 1 THEN [pc |-> "format", tmp |-> 0, formatted |-> ""]
                          ELSE [pc |-> "unborn", tmp |-> 0, formatted |-> ""]]
        /\ calls = <<>>
        /\ ctl = <<CtlCall("set_time", <<h, m, s>>), CtlCall("start", <<>>)>>

\* lines 206-207 of that turn of the loop
FormatNext ==
    \/ CountdownFormat
    \/ CountdownUpdate

\* ------------------------------------------------------------------------
\* Metronome
\* ------------------------------------------------------------------------
\* number of ticks a behaviour may print
MaxTicks == 3

MetronomeInit ==
    /\ metronome = [bpm |-> 60, running |-> FALSE, thread |-> None]
    /\ mthreads = [t \in ThreadIds |-> [pc |-> "unborn", interval |-> None]]
    /\ mctl = [pc |-> "idle", stopped |-> FALSE, arg |-> None]
    /\ ticks = 0
    /\ stale = 0

\* the arguments the control thread passes to set_bpm
BpmInputs == {0, 19, 20, 120, 300, 301}

\* 60 / bpm, kept exact as numerator and denominator
Interval(bpm) == <<60, bpm>>
SameInterval(a, b) == a[1] * b[2] = b[1] * a[2]

\* set_bpm without the upper limit
set_bpm_unbounded(bpm) ==
    /\ mctl.pc = "idle"
    /\ metronome' = [metronome EXCEPT !.bpm = IF bpm < 20 THEN 20 ELSE bpm]
    /\ mctl' = [mctl EXCEPT !.arg = Some(bpm)]
    /\ stale' = 0
    /\ UNCHANGED <<mthreads, ticks>>
    /\ MetronomeFrame

set_bpm(bpm) ==
    /\ mctl.pc = "idle"
    /\ metronome' = [metronome EXCEPT !.bpm =
                        IF bpm < 20 THEN 20
                        ELSE IF bpm > 300 THEN 300
                        ELSE bpm]
    /\ mctl' = [mctl EXCEPT !.arg = Some(bpm)]
    /\ stale' = 0
    /\ UNCHANGED <<mthreads, ticks>>
    /\ MetronomeFrame

NextMThread == CHOOSE t \in ThreadIds :
                  /\ mthreads[t].pc = "unborn"
                  /\ \A u \in ThreadIds : mthreads[u].pc = "unborn" => t <= u

\* start() without the test of line 240: a thread is started also while running
MetronomeStartAgain ==
    /\ mctl.pc = "idle"
    /\ metronome.running
    /\ \E t \in ThreadIds : mthreads[t].pc = "unborn"
    /\ metronome' = [metronome EXCEPT !.thread = Some(NextMThread)]
    /\ mthreads' = [mthreads EXCEPT ![NextMThread].pc = "interval"]
    /\ mctl' = [mctl EXCEPT !.stopped = FALSE]
    /\ UNCHANGED <<ticks, stale>>
    /\ MetronomeFrame

\* start() called while running: returns at once
MetronomeStartNoop ==
    /\ mctl.pc = "idle"
    /\ metronome.running
    /\ mctl' = [mctl EXCEPT !.stopped = FALSE]
    /\ UNCHANGED <<metronome, mthreads, ticks, stale>>
    /\ MetronomeFrame

\* start() called while not running: sets the flag and starts a thread on run()
MetronomeStartSpawn ==
    /\ mctl.pc = "idle"
    /\ ~metronome.running
    /\ \E t \in ThreadIds : mthreads[t].pc = "unborn"
    /\ metronome' = [metronome EXCEPT !.running = TRUE, !.thread = Some(NextMThread)]
    /\ mthreads' = [mthreads EXCEPT ![NextMThread].pc = "interval"]
    /\ mctl' = [mctl EXCEPT !.stopped = FALSE]
    /\ UNCHANGED <<ticks, stale>>
    /\ MetronomeFrame

\* stop(), line 254: self.running = False
MetronomeStop ==
    /\ mctl.pc = "idle"
    /\ metronome' = [metronome EXCEPT !.running = FALSE]
    /\ mctl' = [mctl EXCEPT !.pc = "join"]
    /\ UNCHANGED <<mthreads, ticks, stale>>
    /\ MetronomeFrame

\* stop() returning without waiting for the thread
MetronomeJoinNoWait ==
    /\ mctl.pc = "join"
    /\ mctl' = [mctl EXCEPT !.pc = "idle", !.stopped = TRUE]
    /\ UNCHANGED <<metronome, mthreads, ticks, stale>>
    /\ MetronomeFrame

\* stop(), lines 255-256: self.thread.join() returns once that thread has ended
\* (at once when self.thread is None), and stop() returns
MetronomeJoin ==
    /\ mctl.pc = "join"
    /\ metronome.thread # None => mthreads[metronome.thread[1]].pc = "done"
    /\ mctl' = [mctl EXCEPT !.pc = "idle", !.stopped = TRUE]
    /\ UNCHANGED <<metronome, mthreads, ticks, stale>>
    /\ MetronomeFrame

\* run(), line 245: interval = 60 / self.bpm
MRunInterval(t) ==
    /\ mthreads[t].pc = "interval"
    /\ mthreads' = [mthreads EXCEPT ![t].pc = "while",
                                    ![t].interval = Some(Interval(metronome.bpm))]
    /\ UNCHANGED <<metronome, mctl, ticks, stale>>
    /\ MetronomeFrame

\* run(), line 246: while self.running; the thread ends when it is false
MRunWhile(t) ==
    /\ mthreads[t].pc = "while"
    /\ mthreads' = [mthreads EXCEPT ![t].pc =
                       IF metronome.running THEN "tick" ELSE "done"]
    /\ UNCHANGED <<metronome, mctl, ticks, stale>>
    /\ MetronomeFrame

\* run(), line 247: print("Tick")
MRunTick(t) ==
    /\ mthreads[t].pc = "tick"
    /\ ticks < MaxTicks
    /\ ticks' = ticks + 1
    /\ mthreads' = [mthreads EXCEPT ![t].pc = "sleep"]
    /\ UNCHANGED <<metronome, mctl, stale>>
    /\ MetronomeFrame

\* run(), line 248: time.sleep(interval)
MRunSleep(t) ==
    /\ mthreads[t].pc = "sleep"
    /\ stale' = IF SameInterval(mthreads[t].interval[1], Interval(metronome.bpm))
                THEN stale ELSE stale + 1
    /\ mthreads' = [mthreads EXCEPT ![t].pc = "while"]
    /\ UNCHANGED <<metronome, mctl, ticks>>
    /\ MetronomeFrame

MetronomeSetBpm == \E b \in BpmInputs : set_bpm(b)
MetronomeInterval == \E t \in ThreadIds : MRunInterval(t)
MetronomeWhile == \E t \in ThreadIds : MRunWhile(t)
MetronomeTick == \E t \in ThreadIds : MRunTick(t)
MetronomeSleep == \E t \in ThreadIds : MRunSleep(t)

MetronomeNext ==
    \/ MetronomeSetBpm
    \/ MetronomeStartNoop
    \/ MetronomeStartSpawn
    \/ MetronomeStop
    \/ MetronomeJoin
    \/ MetronomeInterval
    \/ MetronomeWhile
    \/ MetronomeTick
    \/ MetronomeSleep

\* ------------------------------------------------------------------------
\* PracticeTimer
\* ------------------------------------------------------------------------
\* last clock value of a behaviour, in seconds
MaxTime == 4

PracticeInit ==
    /\ practice = [start_time |-> None, total_time |-> 0, running |-> FALSE]
    /\ now = 0
    /\ active = 0
    /\ plast = [op |-> "init", noop |-> FALSE, ret |-> None]

\* one second passes
Advance ==
    /\ now < MaxTime
    /\ now' = now + 1
    /\ active' = IF practice.running THEN active + 1 ELSE active
    /\ UNCHANGED <<practice, plast>>
    /\ PracticeFrame

\* start() without the test of running: the mark moves to the later instant
PracticeStartRestart ==
    /\ practice' = [practice EXCEPT !.start_time = Some(now), !.running = TRUE]
    /\ plast' = [op |-> "start", noop |-> practice.running, ret |-> None]
    /\ UNCHANGED <<now, active>>
    /\ PracticeFrame

PracticeStart ==
    /\ practice' = IF ~practice.running
                   THEN [practice EXCEPT !.start_time = Some(now), !.running = TRUE]
                   ELSE practice
    /\ plast' = [op |-> "start", noop |-> practice.running, ret |-> None]
    /\ UNCHANGED <<now, active>>
    /\ PracticeFrame

\* stop() assigning the last interval instead of adding it
PracticeStopOverwrite ==
    /\ practice' = IF practice.running
                   THEN [start_time |-> None,
                         total_time |-> now - practice.start_time[1],
                         running |-> FALSE]
                   ELSE practice
    /\ plast' = [op |-> "stop", noop |-> ~practice.running, ret |-> None]
    /\ UNCHANGED <<now, active>>
    /\ PracticeFrame

PracticeStop ==
    /\ practice' = IF practice.running
                   THEN [start_time |-> None,
                         total_time |-> practice.total_time + (now - practice.start_time[1]),
                         running |-> FALSE]
                   ELSE practice
    /\ plast' = [op |-> "stop", noop |-> ~practice.running, ret |-> None]
    /\ UNCHANGED <<now, active>>
    /\ PracticeFrame

\* reset() that leaves the running-since mark in place
PracticeResetKeepsMark ==
    /\ practice' = [practice EXCEPT !.total_time = 0, !.running = FALSE]
    /\ active' = 0
    /\ plast' = [op |-> "reset", noop |-> FALSE, ret |-> None]
    /\ UNCHANGED now
    /\ PracticeFrame

PracticeReset ==
    /\ practice' = [start_time |-> None, total_time |-> 0, running |-> FALSE]
    /\ active' = 0
    /\ plast' = [op |-> "reset", noop |-> FALSE, ret |-> None]
    /\ UNCHANGED now
    /\ PracticeFrame

\* the value get_total_time() returns
get_total_time ==
    IF practice.running
    THEN practice.total_time + (now - practice.start_time[1])
    ELSE practice.total_time

\* get_total_time() that commits the running interval to the accumulator
PracticeGetTotalTimeCommits ==
    /\ plast' = [op |-> "get_total_time", noop |-> FALSE, ret |-> Some(get_total_time)]
    /\ practice' = IF practice.running
                   THEN [practice EXCEPT !.total_time = get_total_time,
                                         !.start_time = Some(now)]
                   ELSE practice
    /\ UNCHANGED <<now, active>>
    /\ PracticeFrame

PracticeGetTotalTime ==
    /\ plast' = [op |-> "get_total_time", noop |-> FALSE, ret |-> Some(get_total_time)]
    /\ UNCHANGED <<practice, now, active>>
    /\ PracticeFrame

PracticeNext ==
    \/ Advance
    \/ PracticeStart
    \/ PracticeStop
    \/ PracticeReset
    \/ PracticeGetTotalTime

\* ------------------------------------------------------------------------
\* Python values, dicts and dates
\* ------------------------------------------------------------------------
\* a Python value with its type; a float is kept as a whole number of seconds
PyStr(s) == [type |-> "str", s |-> s, n |-> 0]
PyInt(n) == [type |-> "int", s |-> "", n |-> n]
PyFloat(n) == [type |-> "float", s |-> "", n |-> n]
PyNone == [type |-> "NoneType", s |-> "", n |-> 0]

\* bool(v)
Truthy(v) ==
    CASE v.type = "str" -> v.s # ""
      [] v.type \in {"int", "float"} -> v.n # 0
      [] OTHER -> FALSE

\* a or b
PyOr(a, b) == IF Truthy(a) THEN a ELSE b

\* d.get(key, default)
DictGet(d, key, default) == IF key \in DOMAIN d THEN d[key] ELSE default

\* d[key] = v
DictSet(d, key, v) == [k \in DOMAIN d \cup {key} |-> IF k = key THEN v ELSE d[k]]

\* d.setdefault(key, v)
DictSetDefault(d, key, v) == IF key \in DOMAIN d THEN d ELSE DictSet(d, key, v)

\* one character of a text
Char(t, i) == SubSeq(t, i, i)

IsDigits(t) == \A i \in 1..Len(t) : \E d \in 1..10 : Digit[d] = Char(t, i)

DigitValue(c) == (CHOOSE d \in 1..10 : Digit[d] = c) - 1

RECURSIVE Number(_)
\* int(t) for a text of digits
Number(t) ==
    IF Len(t) = 0 THEN 0
    ELSE Number(SubSeq(t, 1, Len(t) - 1)) * 10 + DigitValue(Char(t, Len(t)))

IsLeap(y) == y % 4 = 0 /\ (y % 100 # 0 \/ y % 400 = 0)

DaysInMonth(y, m) ==
    IF m = 2 THEN (IF IsLeap(y) THEN 29 ELSE 28)
    ELSE IF m \in {4, 6, 9, 11} THEN 30
    ELSE 31

RECURSIVE DaysBeforeMonth(_, _)
DaysBeforeMonth(y, m) ==
    IF m = 1 THEN 0 ELSE DaysBeforeMonth(y, m - 1) + DaysInMonth(y, m - 1)

\* date(y, m, d).toordinal(): 1 is 0001-01-01
Ordinal(y, m, d) ==
    365 * (y - 1) + ((y - 1) \div 4) - ((y - 1) \div 100) + ((y - 1) \div 400)
        + DaysBeforeMonth(y, m) + d

\* datetime.strptime(text, '%Y-%m-%d'): four digits, a dash, a month of one
\* or two digits, a dash, a day of one or two digits, nothing else, and the
\* three numbers are a date of the calendar; ok is FALSE where it raises
\* ValueError
strptime(text) ==
    LET dashes == {i \in 1..Len(text) : Char(text, i) = "-"}
        second == CHOOSE i \in dashes : i > 5
        Y == SubSeq(text, 1, 4)
        M == SubSeq(text, 6, second - 1)
        D == SubSeq(text, second + 1, Len(text))
        shaped == /\ Len(text) >= 8
                  /\ 5 \in dashes
                  /\ Cardinality(dashes) = 2
                  /\ \E i \in dashes : i > 5
                  /\ second \in 7..8
                  /\ Len(text) - second \in 1..2
                  /\ IsDigits(Y) /\ IsDigits(M) /\ IsDigits(D)
        valid == /\ shaped
                 /\ Number(Y) >= 1
                 /\ Number(M) \in 1..12
                 /\ Number(D) >= 1
                 /\ Number(D) <= DaysInMonth(Number(Y), Number(M))
    IN  IF valid
        THEN [ok |-> TRUE, year |-> Number(Y), month |-> Number(M), day |-> Number(D)]
        ELSE [ok |-> FALSE, year |-> 0, month |-> 0, day |-> 0]

\* the ordinal of the Monday that begins ISO week 1 of a year
IsoWeek1Monday(y) ==
    LET firstday == Ordinal(y, 1, 1)
        firstweekday == (firstday + 6) % 7
        monday == firstday - firstweekday
    IN  IF firstweekday > 3 THEN monday + 7 ELSE monday

\* date(y, m, d).isocalendar()[1]
IsoWeek(y, m, d) ==
    LET today == Ordinal(y, m, d)
        week == (today - IsoWeek1Monday(y)) \div 7
    IN  IF week < 0 THEN ((today - IsoWeek1Monday(y - 1)) \div 7) + 1
        ELSE IF week >= 52 /\ today >= IsoWeek1Monday(y + 1) THEN 1
        ELSE week + 1

\* ------------------------------------------------------------------------
\* JSON
\* ------------------------------------------------------------------------
\* json.dump of a value: a string, a number written without or with a
\* fraction, or null
JsonValue(v) ==
    CASE v.type = "str" -> [kind |-> "string", s |-> v.s, n |-> 0]
      [] v.type = "int" -> [kind |-> "integer", s |-> "", n |-> v.n]
      [] v.type = "float" -> [kind |-> "real", s |-> "", n |-> v.n]
      [] OTHER -> [kind |-> "null", s |-> "", n |-> 0]

\* json.load of a value
PyValue(j) ==
    CASE j.kind = "string" -> PyStr(j.s)
      [] j.kind = "integer" -> PyInt(j.n)
      [] j.kind = "real" -> PyFloat(j.n)
      [] OTHER -> PyNone

\* an element of a JSON array: an object with its members, or a number
JsonObject(d) == [kind |-> "object", members |-> [k \in DOMAIN d |-> JsonValue(d[k])]]
JsonNumber == [kind |-> "integer", members |-> <<>>]

\* json.dump(sessions, file, indent=4): an array of objects
JsonDump(list) ==
    [kind |-> "array", items |-> [i \in 1..Len(list) |-> JsonObject(list[i])]]

\* a file that holds a JSON text, a text that is no JSON, or no file
FileJson(doc) == [state |-> "json", doc |-> doc]
FileMalformed == [state |-> "malformed", doc |-> [kind |-> "null", items |-> <<>>]]
FileMissing == [state |-> "missing", doc |-> [kind |-> "null", items |-> <<>>]]

\* ------------------------------------------------------------------------
\* Session store: load_sessions and save_session
\* ------------------------------------------------------------------------
\* number of sessions the collection may hold
MaxSessions == 3

\* the dict CronometroTab.toggle_timer builds
Session(start, finish, duration, date, composer, work, movement, notes) ==
    [start_time |-> PyStr(start), end_time |-> PyStr(finish),
     duration |-> PyFloat(duration), date |-> PyStr(date),
     composer |-> PyStr(composer), work |-> PyStr(work),
     movement |-> PyStr(movement), notes |-> PyStr(notes)]

\* a dict without some of its keys
Without(d, keys) == [k \in DOMAIN d \ keys |-> d[k]]

\* the exception the body of load_sessions raises, "none" when it returns
LoadException(f) ==
    IF f.state = "missing" THEN "FileNotFoundError"
    ELSE IF f.state = "malformed" THEN "JSONDecodeError"
    ELSE IF f.doc.kind # "array" THEN "TypeError"
    ELSE IF \E i \in 1..Len(f.doc.items) : f.doc.items[i].kind # "object"
         THEN "AttributeError"
    ELSE "none"

\* the classes derived from Exception that the store can meet
Exceptions == {"FileNotFoundError", "JSONDecodeError", "TypeError", "AttributeError",
               "KeyError", "ValueError", "OSError"}

\* load_sessions with its two named except clauses only
LoadCatchesNamed(exc) == exc \in {"FileNotFoundError", "JSONDecodeError"}

\* the except clauses of load_sessions, the last one being `except Exception`
LoadCatches(exc) ==
    exc \in {"FileNotFoundError", "JSONDecodeError"} \/ exc \in Exceptions

\* lines 26-29: the four setdefault calls on one loaded dict
LoadDefaults(d) ==
    DictSetDefault(
        DictSetDefault(
            DictSetDefault(
                DictSetDefault(d, "composer", PyStr("Unknown")),
                "work", PyStr("Unknown")),
            "movement", PyStr("Unknown")),
        "notes", PyStr(""))

\* the dict json.load builds from an object
LoadObject(item) == [k \in DOMAIN item.members |-> PyValue(item.members[k])]

\* load_sessions(): the list it returns and the exception that leaves it
load_sessions(f) ==
    LET exc == LoadException(f)
    IN  IF exc = "none"
        THEN [result |-> [i \in 1..Len(f.doc.items) |->
                             LoadDefaults(LoadObject(f.doc.items[i]))],
              raised |-> "none"]
        ELSE IF LoadCatches(exc) THEN [result |-> <<>>, raised |-> "none"]
        ELSE [result |-> <<>>, raised |-> exc]

\* lines 47-50 of save_session
SaveDefaults(session) ==
    LET a == DictSet(session, "composer",
                     PyOr(DictGet(session, "composer", PyStr("Unknown")), PyStr("Unknown")))
        b == DictSet(a, "work",
                     PyOr(DictGet(a, "work", PyStr("Unknown")), PyStr("Unknown")))
        c == DictSet(b, "movement",
                     PyOr(DictGet(b, "movement", PyStr("Unknown")), PyStr("Unknown")))
    IN  DictSet(c, "notes", DictGet(c, "notes", PyStr("")))

\* lines 57-58: the exception session['date'] or strptime raises, or "none"
DateException(session) ==
    IF "date" \notin DOMAIN session THEN "KeyError"
    ELSE IF session["date"].type # "str" THEN "TypeError"
    ELSE IF ~strptime(session["date"].s).ok THEN "ValueError"
    ELSE "none"

\* lines 59-61: week, month and year of the parsed date
SaveDerived(session) ==
    LET dt == strptime(session["date"].s)
        a == DictSet(session, "week", PyInt(IsoWeek(dt.year, dt.month, dt.day)))
        b == DictSet(a, "month", PyInt(dt.month))
    IN  DictSet(b, "year", PyInt(dt.year))

\* what becomes of open(SESSIONS_FILE, "w") and json.dump
IoOutcomes == {"ok", "open_fails", "dump_fails"}

\* the write adding the new session to what the file holds, in the place of
\* dumping the whole list
WriteFileAppending(list, f, io) ==
    CASE io = "ok" ->
            [file |-> FileJson(JsonDump(Append(load_sessions(f).result,
                                               list[Len(list)]))),
             exc |-> "none"]
      [] io = "open_fails" -> [file |-> f, exc |-> "OSError"]
      [] OTHER -> [file |-> FileMalformed, exc |-> "OSError"]

\* the write placed before the append: the file misses the new session
WriteFileWithoutLast(list, f, io) ==
    CASE io = "ok" -> [file |-> FileJson(JsonDump(SubSeq(list, 1, Len(list) - 1))),
                       exc |-> "none"]
      [] io = "open_fails" -> [file |-> f, exc |-> "OSError"]
      [] OTHER -> [file |-> FileMalformed, exc |-> "OSError"]

\* lines 64-65: the file after the write and the exception raised; open
\* truncates the file, so a dump that fails leaves a text that is no JSON
WriteFile(list, f, io) ==
    CASE io = "ok" -> [file |-> FileJson(JsonDump(list)), exc |-> "none"]
      [] io = "open_fails" -> [file |-> f, exc |-> "OSError"]
      [] OTHER -> [file |-> FileMalformed, exc |-> "OSError"]

\* what save_session gives its caller; every exception is caught on line 67
SaveOut(arg, session, exc) ==
    [op |-> "save_session", arg |-> arg, session |-> session, outcome |-> exc,
     returned |-> PyNone, raised |-> "none"]

\* save_session appending before it parses the date
save_session_append_first(list, f, session, io) ==
    LET normal == SaveDefaults(session)
        exc == DateException(normal)
        derived == SaveDerived(normal)
        written == WriteFile(Append(list, derived), f, io)
    IN  IF exc # "none"
        THEN [sessions |-> Append(list, normal), file |-> f,
              out |-> SaveOut(session, normal, exc)]
        ELSE [sessions |-> Append(list, derived), file |-> written.file,
              out |-> SaveOut(session, derived, written.exc)]

\* save_session undoing the append when the write fails
save_session_rollback(list, f, session, io) ==
    LET normal == SaveDefaults(session)
        exc == DateException(normal)
        derived == SaveDerived(normal)
        written == WriteFile(Append(list, derived), f, io)
    IN  IF exc # "none"
        THEN [sessions |-> list, file |-> f, out |-> SaveOut(session, normal, exc)]
        ELSE [sessions |-> IF written.exc = "none" THEN Append(list, derived) ELSE list,
              file |-> written.file,
              out |-> SaveOut(session, derived, written.exc)]

\* save_session(sessions, session) on the list and the file given
save_session(list, f, session, io) ==
    LET normal == SaveDefaults(session)
        exc == DateException(normal)
        derived == SaveDerived(normal)
        appended == Append(list, derived)
        written == WriteFile(appended, f, io)
    IN  IF exc # "none"
        THEN [sessions |-> list, file |-> f, out |-> SaveOut(session, normal, exc)]
        ELSE [sessions |-> appended, file |-> written.file,
              out |-> SaveOut(session, derived, written.exc)]

SaveSession(session, io) ==
    /\ Len(sessions) < MaxSessions
    /\ LET r == save_session(sessions, file, session, io)
       IN  /\ sessions' = r.sessions
           /\ file' = r.file
           /\ out' = r.out
    /\ StoreFrame

LoadOut(r) == [op |-> "load_sessions", result |-> r.result, raised |-> r.raised]

\* a call of load_sessions(); its caller keeps the list it returns
LoadSessions ==
    /\ out' = LoadOut(load_sessions(file))
    /\ UNCHANGED <<sessions, file>>
    /\ StoreFrame

\* sessions given to save_session: complete, with empty texts, with keys
\* missing or None, and with dates that strptime rejects
Full == Session("2024-01-08T10:00:00", "2024-01-08T10:30:00", 1800, "2024-01-08",
                "Bach", "Suite", "Gigue", "slow")
Blank == Session("2024-01-07T09:00:00", "2024-01-07T09:00:05", 5, "2024-01-07",
                 "", "", "", "")
Bare == DictSet(Without(Full, {"work", "movement", "notes"}), "composer", PyNone)
BadDay == DictSet(Full, "date", PyStr("2024-02-30"))
BadShape == DictSet(Blank, "date", PyStr("08/01/2024"))
NoDate == Without(Full, {"date"})

StoreSamples == {Full, Blank, Bare, BadDay, BadShape, NoDate}

\* a record written by an earlier version: keys missing, an empty text, a null
Old == DictSet(DictSet(Without(Full, {"movement", "notes"}), "composer", PyStr("")),
               "work", PyNone)

\* what SESSIONS_FILE may hold when the program starts
InitialFiles ==
    {FileMissing, FileMalformed,
     FileJson(JsonDump(<<>>)),
     FileJson(JsonDump(<<Old>>)),
     FileJson([kind |-> "integer", items |-> <<>>]),
     FileJson([kind |-> "array", items |-> <<JsonNumber>>])}

StoreInit ==
    /\ file \in InitialFiles
    /\ sessions = load_sessions(file).result
    /\ out = LoadOut(load_sessions(file))

\* the store of a first start: no file yet
StoreFresh ==
    /\ file = FileMissing
    /\ sessions = <<>>
    /\ out = LoadOut(load_sessions(FileMissing))

StoreSave == \E s \in StoreSamples : \E io \in IoOutcomes : SaveSession(s, io)

StoreNext ==
    \/ StoreSave
    \/ LoadSessions

\* ------------------------------------------------------------------------
\* Statistics: calculate_period_stats, calculate_progress,
\* generate_progress_bar, calculate_streak
\* ------------------------------------------------------------------------
\* ord(c) of the characters of a date text
Code(c) == IF c = "-" THEN 45 ELSE 48 + DigitValue(c)

RECURSIVE StrLess(_, _)
\* a < b on str: the first differing character decides, a prefix is smaller
StrLess(a, b) ==
    IF Len(a) = 0 THEN Len(b) > 0
    ELSE IF Len(b) = 0 THEN FALSE
    ELSE IF Char(a, 1) # Char(b, 1) THEN Code(Char(a, 1)) < Code(Char(b, 1))
    ELSE StrLess(SubSeq(a, 2, Len(a)), SubSeq(b, 2, Len(b)))

\* datetime.strptime(text, '%Y-%m-%d').date() as a count of days
DateOf(text) ==
    LET dt == strptime(text) IN Ordinal(dt.year, dt.month, dt.day)

\* the period_type values EstadisticasTab.update_progress goes through
Periods == <<"daily", "weekly", "monthly", "yearly">>

\* lines 85-100 with `<` in the place of `<=`
KeepsExclusive(period_type, days) ==
    CASE period_type = "daily" -> days = 0
      [] period_type = "weekly" -> days < 7
      [] period_type = "monthly" -> days < 30
      [] period_type = "yearly" -> days < 365
      [] OTHER -> FALSE

\* lines 85-100: the test on days = (now.date() - session_date.date()).days
Keeps(period_type, days) ==
    CASE period_type = "daily" -> days = 0
      [] period_type = "weekly" -> days <= 7
      [] period_type = "monthly" -> days <= 30
      [] period_type = "yearly" -> days <= 365
      [] OTHER -> FALSE

\* lines 81-100: valid_sessions
ValidSessions(list, period_type, today) ==
    SelectSeq(list, LAMBDA session :
                        Keeps(period_type, DateOf(today) - DateOf(session["date"].s)))

RECURSIVE AggregateLast(_)
\* lines 103-112 with `=` in the place of `+=`
AggregateLast(valid) ==
    IF valid = <<>> THEN <<>>
    ELSE LET rest == AggregateLast(SubSeq(valid, 1, Len(valid) - 1))
             session == valid[Len(valid)]
             date == session["date"].s
             duration == session["duration"].n
         IN  IF \E i \in 1..Len(rest) : rest[i].date = date
             THEN [i \in 1..Len(rest) |->
                      IF rest[i].date = date
                      THEN [date |-> date, duration |-> duration]
                      ELSE rest[i]]
             ELSE Append(rest, [date |-> date, duration |-> duration])

RECURSIVE Aggregate(_)
\* lines 103-112: the items of the dict stats, in the order of insertion
Aggregate(valid) ==
    IF valid = <<>> THEN <<>>
    ELSE LET rest == Aggregate(SubSeq(valid, 1, Len(valid) - 1))
             session == valid[Len(valid)]
             date == session["date"].s
             duration == session["duration"].n
         IN  IF \E i \in 1..Len(rest) : rest[i].date = date
             THEN [i \in 1..Len(rest) |->
                      IF rest[i].date = date
                      THEN [date |-> date, duration |-> rest[i].duration + duration]
                      ELSE rest[i]]
             ELSE Append(rest, [date |-> date, duration |-> duration])

\* calculate_period_stats(sessions, period_type) when datetime.now() is on
\* the day today
calculate_period_stats(list, period_type, today) ==
    IF list = <<>> THEN <<>>
    ELSE Aggregate(ValidSessions(list, period_type, today))

\* goals_hours.get(period_type, 0)
GoalHours(period_type) ==
    CASE period_type = "daily" -> 5
      [] period_type = "weekly" -> 25
      [] period_type = "monthly" -> 100
      [] period_type = "yearly" -> 1200
      [] OTHER -> 0

\* the definition of line 115, whose goals are hours times 60
calculate_progress_minutes(period_type, total_duration) ==
    LET goal == GoalHours(period_type) * 60
    IN  IF goal = 0 THEN [num |-> 0, den |-> 1]
        ELSE [num |-> total_duration * 100, den |-> goal]

\* calculate_progress (the definition of line 392, which replaces that of
\* line 115): a percentage, kept as the fraction num/den
calculate_progress(period_type, total_duration_seconds) ==
    LET goal_seconds == GoalHours(period_type) * 3600
    IN  IF goal_seconds = 0 THEN [num |-> 0, den |-> 1]
        ELSE [num |-> total_duration_seconds * 100, den |-> goal_seconds]

\* int(a / b) for b > 0: towards zero
Trunc(a, b) == IF a >= 0 THEN a \div b ELSE 0 - ((0 - a) \div b)

RECURSIVE Repeat(_, _)
\* c * n on str: empty when n <= 0
Repeat(c, n) == IF n <= 0 THEN "" ELSE c \o Repeat(c, n - 1)

\* f"{percentage:.1f}" for percentage >= 0: the nearest tenth, a tie going to
\* the even digit
OneDecimal(percentage) ==
    LET q == (percentage.num * 10) \div percentage.den
        r == (percentage.num * 10) % percentage.den
        tenths == IF 2 * r > percentage.den \/ (2 * r = percentage.den /\ q % 2 = 1)
                  THEN q + 1 ELSE q
    IN  Decimal(tenths \div 10) \o "." \o Digit[(tenths % 10) + 1]

\* generate_progress_bar(percentage, width)
generate_progress_bar(percentage, width) ==
    LET filled == Trunc(percentage.num * width, percentage.den * 100)
        empty == width - filled
    IN  "[" \o Repeat("#", filled) \o Repeat(".", empty) \o "] "
            \o OneDecimal(percentage) \o "%"

RECURSIVE Sum(_)
\* sum(duration for _, duration in data)
Sum(data) == IF data = <<>> THEN 0 ELSE data[1].duration + Sum(Tail(data))

\* one turn of the loop of update_progress (lines 628-635), datetime.now()
\* being on the day today
ProgressRow(list, period, today) ==
    LET data == calculate_period_stats(list, period, today)
        total_duration == Sum(data)
        percentage == calculate_progress(period, total_duration)
    IN  [period |-> period, today |-> today, data |-> data,
         percentage |-> percentage,
         bar |-> IF data = <<>> THEN "No hay datos"
                 ELSE generate_progress_bar(percentage, 20)]

\* the days datetime.now() may be on
NowInputs == <<"2024-01-08", "2024-01-09">>

\* the days the four calls of one update_progress see: the clock does not
\* go back
Clocks == {c \in [1..4 -> 1..2] : \A i \in 1..3 : c[i] <= c[i + 1]}

\* EstadisticasTab.update_progress
UpdateProgress ==
    /\ \E c \in Clocks :
          out' = [op |-> "update_progress",
                  rows |-> IF sessions = <<>> THEN <<>>
                           ELSE [i \in 1..4 |->
                                    ProgressRow(sessions, Periods[i], NowInputs[c[i]])]]
    /\ UNCHANGED <<sessions, file>>
    /\ StoreFrame

RECURSIVE InsertDescending(_, _)
\* x placed behind the elements whose date is not smaller
InsertDescending(sorted, x) ==
    IF sorted = <<>> THEN <<x>>
    ELSE IF StrLess(sorted[1]["date"].s, x["date"].s) THEN <<x>> \o sorted
    ELSE <<sorted[1]>> \o InsertDescending(Tail(sorted), x)

RECURSIVE SortDescending(_)
\* line 142: sessions.sort(key=lambda x: x['date'], reverse=True), which
\* keeps elements of equal date in the order they had
SortDescending(list) ==
    IF list = <<>> THEN <<>>
    ELSE InsertDescending(SortDescending(SubSeq(list, 1, Len(list) - 1)),
                          list[Len(list)])

RECURSIVE Walk(_, _, _, _)
\* lines 147-155: the loop from its i-th turn on
Walk(list, i, previous_date, streak) ==
    IF i > Len(list) THEN streak
    ELSE LET current_date == DateOf(list[i]["date"].s)
         IN  IF previous_date - current_date = 1
             THEN Walk(list, i + 1, current_date, streak + 1)
             ELSE IF previous_date - current_date = 0
             THEN Walk(list, i + 1, previous_date, streak)
             ELSE streak

\* calculate_streak without the sort of line 142
calculate_streak_unsorted(list) ==
    IF list = <<>> THEN [sessions |-> list, ret |-> 0]
    ELSE [sessions |-> list,
          ret |-> Walk(list, 1, DateOf(list[1]["date"].s), 0) + 1]

\* calculate_streak(sessions): what it returns and the list it leaves
calculate_streak(list) ==
    IF list = <<>> THEN [sessions |-> list, ret |-> 0]
    ELSE LET sorted == SortDescending(list)
         IN  [sessions |-> sorted,
              ret |-> Walk(sorted, 1, DateOf(sorted[1]["date"].s), 0) + 1]

\* EstadisticasTab.update_streak, whose self.sessions is MusicApp.sessions
UpdateStreak ==
    /\ sessions' = calculate_streak(sessions).sessions
    /\ out' = [op |-> "calculate_streak", before |-> sessions,
               streak |-> calculate_streak(sessions).ret]
    /\ UNCHANGED file
    /\ StoreFrame

\* a session of two and a half hours on a day
Practice(date) ==
    Session(date \o "T10:00:00", date \o "T12:30:00", 9000, date,
            "Bach", "Suite", "Gigue", "")

\* the days with practice
PracticeDays == {"2024-01-08", "2024-01-01", "2023-12-31", "2023-12-30",
                 "2023-12-09", "2023-01-08"}

\* toggle_timer saving a session, the write succeeding
StatsSave == \E date \in PracticeDays : SaveSession(Practice(date), "ok")

\* the arguments given to calculate_progress: the four periods and a name
\* that is none of them; totals of seconds below, at and above the daily goal
ProgressPeriods == {"daily", "weekly", "monthly", "yearly", "unknown"}
ProgressTotals == {0, 100, 9000, 18000, 27000}

\* a call of calculate_progress(period_type, total_duration_seconds)
CalculateProgress ==
    /\ \E period_type \in ProgressPeriods : \E total \in ProgressTotals :
          out' = [op |-> "calculate_progress", period_type |-> period_type,
                  total |-> total,
                  percentage |-> calculate_progress(period_type, total)]
    /\ UNCHANGED <<sessions, file>>
    /\ StoreFrame

StatsNext ==
    \/ StatsSave
    \/ UpdateStreak
    \/ UpdateProgress
    \/ CalculateProgress

\* ------------------------------------------------------------------------
\* Specifications
\* ------------------------------------------------------------------------
TimersInit == CountdownInit /\ MetronomeInit /\ PracticeInit
Init == TimersInit /\ StoreInit
\* the program started with no sessions file
FreshInit == TimersInit /\ StoreFresh
Next == CountdownNext \/ MetronomeNext \/ PracticeNext \/ StoreNext \/ StatsNext
Spec == Init /\ [][Next]_vars

SpecCountdown == FreshInit /\ [][CountdownNext]_vars
SpecCountdownRun == FreshInit /\ [][CountdownRunNext]_vars
SpecMetronome == FreshInit /\ [][MetronomeNext]_vars
SpecPractice == FreshInit /\ [][PracticeNext]_vars
SpecStore == Init /\ [][StoreNext]_vars
SpecStats == FreshInit /\ [][StatsNext]_vars
\* a countdown about to format its first tick
TickInit == FormatInit /\ MetronomeInit /\ PracticeInit /\ StoreFresh
SpecFormat == TickInit /\ [][FormatNext]_vars
\* a countdown with its time set, started and stopped; a thread that can take
\* a step of run() is scheduled sooner or later, and time.sleep(1) returns
SetInit == CancelInit /\ MetronomeInit /\ PracticeInit /\ StoreFresh
SpecCancel == SetInit /\ [][CancelNext]_vars /\ WF_vars(CountdownThreadNext)

\* ------------------------------------------------------------------------
\* CountdownTimer: stop, single cadence, ticks and completion
\* ------------------------------------------------------------------------
\* stop() has returned and start() has not been called since
StopReturned ==
    \E i \in 1..Len(ctl) :
        /\ ctl[i].op = "stop"
        /\ \A j \in (i + 1)..Len(ctl) : ctl[j].op # "start"

\* number of finished_callback invocations in a log of callbacks
Finished(log) == Cardinality({i \in 1..Len(log) : log[i].kind = "finished"})

\* C1: once stop() has returned, and until start() is called again,
\* finished_callback is not invoked.
C1_NoFinishedAfterStop ==
    [][StopReturned => Finished(calls') = Finished(calls)]_vars

\* the threads that are inside the body of run()'s loop
InCadence == {t \in ThreadIds : cthreads[t].pc \in {"sleep", "store", "format", "update"}}

\* C2: at most one thread of a CountdownTimer is inside the decrementing loop
\* at any time.
C2_AtMostOneCadence == Cardinality(InCadence) <= 1

\* the callbacks of a countdown of T seconds that runs to completion on thread t
Expected(t, T) ==
    [i \in 1..(T + 1) |->
        IF i <= T THEN Callback(t, "update", format_time(T - i))
        ELSE Callback(t, "finished", "")]

IsPrefix(s, q) == Len(s) <= Len(q) /\ s = SubSeq(q, 1, Len(s))

\* the control thread has called set_time(0, 0, T) and then start(), nothing else
StartedOnce(T) ==
    ctl = <<CtlCall("set_time", <<0, 0, T>>), CtlCall("start", <<>>)>>

\* C3: a countdown set to T > 0, started once and never stopped invokes
\* update_callback with T-1, ..., 0 formatted, in that order, then
\* finished_callback once, and nothing else; it ends with total_seconds = 0.
C3_TicksThenFinished ==
    \A T \in 1..MaxSeconds :
        StartedOnce(T) =>
            /\ IsPrefix(calls, Expected(1, T))
            /\ Len(calls) <= T => countdown.total_seconds \in {T - Len(calls), T - Len(calls) - 1}
            /\ cthreads[1].pc = "done" =>
                  calls = Expected(1, T) /\ countdown.total_seconds = 0

C3_Witness ==
    /\ StartedOnce(2)
    /\ cthreads[1].pc = "done"
    /\ calls = <<Callback(1, "update", "00:00:01"), Callback(1, "update", "00:00:00"),
                 Callback(1, "finished", "")>>

\* ------------------------------------------------------------------------
\* Metronome: stop joins, bpm changes, bpm range
\* ------------------------------------------------------------------------
\* C4: after a stop() call has returned and before the next start(), no tick
\* is emitted.
C4_NoTickAfterStop ==
    [][(mctl.pc = "idle" /\ mctl.stopped) => ticks' = ticks]_vars

C4_Witness ==
    /\ mctl.pc = "idle"
    /\ mctl.stopped
    /\ ticks > 0
    /\ metronome.thread # None
    /\ mthreads[metronome.thread[1]].pc = "done"

\* C5: a bpm set while running takes effect from the next computed interval:
\* after set_bpm, at most the one sleep whose interval was already computed
\* still uses an interval other than 60/bpm.
C5_BpmChangeTakesEffect == stale <= 1

Min(a, b) == IF a <= b THEN a ELSE b
Max(a, b) == IF a >= b THEN a ELSE b

\* C6: bpm stays within [20, 300]; it is 60 until the first set_bpm, and
\* after set_bpm(x) it is min(300, max(20, x)).
C6_BpmClamped ==
    /\ metronome.bpm \in 20..300
    /\ mctl.arg = None => metronome.bpm = 60
    /\ mctl.arg # None => metronome.bpm = Min(300, Max(20, mctl.arg[1]))

C6_Witness ==
    /\ mctl.arg = Some(301)
    /\ metronome.bpm = 300

\* ------------------------------------------------------------------------
\* PracticeTimer
\* ------------------------------------------------------------------------
PracticeIdle == [start_time |-> None, total_time |-> 0, running |-> FALSE]

\* C7: get_total_time() is the time spent Running since the last reset(),
\* completed intervals and the current one together; reset() leaves the total
\* at 0 and the timer Idle.
C7_Accumulates ==
    /\ get_total_time = active
    /\ plast.op = "reset" => practice = PracticeIdle

\* start, 2 s, stop, start, 1 s: the total is 3
C7_Witness ==
    /\ practice.running
    /\ practice.total_time = 2
    /\ now - practice.start_time[1] = 1
    /\ get_total_time = 3

\* C8: start() while Running and stop() while Idle change no field of the timer.
C8_NoopsChangeNothing ==
    [][(\/ PracticeStart /\ practice.running
        \/ PracticeStop /\ ~practice.running) => practice' = practice]_vars

\* start() was called while Running, after time had passed since the mark
C8_Witness ==
    /\ plast.op = "start"
    /\ plast.noop
    /\ practice.running
    /\ practice.start_time[1] < now

\* C9: get_total_time() returns total_time + (now - start_time) when Running
\* and total_time when Idle, changes no field, and a stop() commits the time
\* spent Running whatever was polled before it.
C9_ReadOnlyPoll ==
    [][/\ PracticeGetTotalTime =>
            /\ practice' = practice
            /\ plast'.ret = Some(IF practice.running
                                 THEN practice.total_time + (now - practice.start_time[1])
                                 ELSE practice.total_time)
       /\ PracticeStop => practice'.total_time = active]_vars

\* a poll while Running, with a completed interval behind it
C9_Witness ==
    /\ plast.op = "get_total_time"
    /\ practice.running
    /\ practice.total_time > 0
    /\ plast.ret = Some(practice.total_time + 1)

\* C10: the mark is set exactly when the timer is Running, and total_time
\* changes only in stop() and reset(), never while the timer stays Running.
C10_MarkIffRunning ==
    /\ [](practice.running <=> practice.start_time # None)
    /\ [][/\ practice'.total_time # practice.total_time => PracticeStop \/ PracticeReset
          /\ practice.running /\ practice'.running =>
                practice'.total_time = practice.total_time]_vars

\* Running for some time, with an earlier interval in the accumulator
C10_Witness ==
    /\ practice.running
    /\ practice.start_time # None
    /\ practice.total_time > 0
    /\ practice.start_time[1] < now
    /\ plast.op = "start"

\* ------------------------------------------------------------------------
\* Session store
\* ------------------------------------------------------------------------
SessionKeys == {"start_time", "end_time", "duration", "date", "composer", "work",
                "movement", "notes", "week", "month", "year"}

\* the last call was a save_session that ended with this exception ("none":
\* the session was appended and written)
SaveEnded(exc) == out.op = "save_session" /\ out.outcome = exc

\* C11: after a save_session whose write succeeds, load_sessions() returns a
\* list that holds a record equal to the saved one in all its eleven fields.
C11_RoundTrip ==
    SaveEnded("none") =>
        /\ DOMAIN out.session = SessionKeys
        /\ \E i \in 1..Len(load_sessions(file).result) :
              load_sessions(file).result[i] = out.session

\* a session entered with empty texts, saved and found again with its defaults
\* and the week, month and year of 2024-01-07
C11_Witness ==
    /\ SaveEnded("none")
    /\ out.arg = Blank
    /\ Len(sessions) >= 2
    /\ load_sessions(file).result[Len(sessions)] = out.session
    /\ out.session["composer"] = PyStr("Unknown")
    /\ out.session["duration"] = PyFloat(5)
    /\ out.session["week"] = PyInt(1)
    /\ out.session["month"] = PyInt(1)
    /\ out.session["year"] = PyInt(2024)

\* the date of a session does not parse as YYYY-MM-DD (or there is none)
BadDate(session) ==
    "date" \in DOMAIN session =>
        session["date"].type = "str" /\ ~strptime(session["date"].s).ok

\* C12: save_session of a session whose date does not parse changes neither
\* the collection nor the file, whatever a write would have met, and raises
\* nothing.
C12_BadDateIsNoop ==
    [][\A s \in StoreSamples : \A io \in IoOutcomes :
          (BadDate(s) /\ SaveSession(s, io)) =>
              /\ sessions' = sessions
              /\ file' = file
              /\ out'.raised = "none"]_vars

C12_Witness ==
    /\ SaveEnded("ValueError")
    /\ out.arg = BadDay
    /\ Len(sessions) > 0
    /\ file = FileJson(JsonDump(sessions))

\* number of elements of a list equal to x
Count(x, list) == Cardinality({i \in 1..Len(list) : list[i] = x})

\* x is in the collection more often than in the persisted file
Unsaved(x, list, f) == Count(x, list) > Count(x, load_sessions(f).result)

\* C13: a write that fails is caught and the append stays: the collection ends
\* with the new session, the persisted store lacks it, and it keeps lacking it
\* until a save_session whose write succeeds.
C13_NoRollback ==
    /\ [](SaveEnded("OSError") =>
            /\ out.raised = "none"
            /\ Len(sessions) > 0
            /\ sessions[Len(sessions)] = out.session
            /\ Unsaved(out.session, sessions, file))
    /\ [][\A i \in 1..Len(sessions) :
            (/\ Unsaved(sessions[i], sessions, file)
             /\ ~(out'.op = "save_session" /\ out'.outcome = "none" /\ sessions' # sessions))
            => Unsaved(sessions[i], sessions', file')]_vars

\* two writes failed one after the other; the file still holds the old text
C13_Witness ==
    /\ SaveEnded("OSError")
    /\ Len(sessions) = 2
    /\ file.state = "json"
    /\ Len(load_sessions(file).result) = 0
    /\ Unsaved(sessions[1], sessions, file)
    /\ Unsaved(sessions[2], sessions, file)

\* C14: save_session gives its caller something else after a failed save than
\* after a successful one (which returns None and raises nothing).
C14_FailureReported ==
    (out.op = "save_session" /\ out.outcome # "none") =>
        (out.returned # PyNone \/ out.raised # "none")

\* C15: load_sessions() raises nothing, and returns the empty list for a
\* missing file and for a file that is no JSON.
C15_LoadNeverFails ==
    /\ load_sessions(file).raised = "none"
    /\ out.op = "load_sessions" =>
          /\ out.raised = "none"
          /\ file.state \in {"missing", "malformed"} => out.result = <<>>

\* load_sessions() called on the text a failed dump left behind
C15_Witness ==
    /\ out.op = "load_sessions"
    /\ file.state = "malformed"
    /\ Len(sessions) > 0
    /\ out.result = <<>>

\* C16: load_sessions() returns composer, work and movement as "Unknown"
\* wherever the stored value is absent, empty or null, and notes as "" where
\* absent; save_session leaves the same in the session it appends.
C16_DefaultsOnLoad ==
    /\ LoadException(file) = "none" =>
          \A i \in 1..Len(file.doc.items) :
              LET stored == LoadObject(file.doc.items[i])
                  got == load_sessions(file).result[i]
              IN  /\ \A k \in {"composer", "work", "movement"} :
                        (k \notin DOMAIN stored \/ ~Truthy(stored[k])) =>
                            got[k] = PyStr("Unknown")
                  /\ "notes" \notin DOMAIN stored => got["notes"] = PyStr("")
    /\ out.op = "save_session" =>
          /\ \A k \in {"composer", "work", "movement"} :
                (k \notin DOMAIN out.arg \/ ~Truthy(out.arg[k])) =>
                    out.session[k] = PyStr("Unknown")
          /\ "notes" \notin DOMAIN out.arg => out.session["notes"] = PyStr("")

\* ------------------------------------------------------------------------
\* Statistics
\* ------------------------------------------------------------------------
\* the dates of the sessions of a list, as texts and as counts of days
DateTexts(list) == {list[i]["date"].s : i \in 1..Len(list)}
Days(list) == {DateOf(t) : t \in DateTexts(list)}

\* the number of days in a row that have a session, counted back from the
\* most recent day that has one
Streak(list) ==
    IF list = <<>> THEN 0
    ELSE LET T == CHOOSE d \in Days(list) : \A e \in Days(list) : e <= d
         IN  CHOOSE k \in 1..Len(list) :
                /\ \A j \in 0..(k - 1) : (T - j) \in Days(list)
                /\ (T - k) \notin Days(list)

\* C17: calculate_streak returns 0 for the empty collection and otherwise the
\* number of consecutive days with a session that end at the most recent
\* session date, whatever the order of the list and however many sessions a
\* day has: three days in a row give 3, two days with a gap give 1.
C17_Streak ==
    out.op = "calculate_streak" =>
        /\ out.streak = Streak(out.before)
        /\ out.before = <<>> => out.streak = 0
        /\ DateTexts(out.before) = {"2024-01-01", "2023-12-31", "2023-12-30"}
              => out.streak = 3
        /\ DateTexts(out.before) = {"2024-01-01", "2023-12-30"} => out.streak = 1
        /\ DateTexts(out.before) = {"2024-01-08", "2023-12-09", "2023-01-08"}
              => out.streak = 1

\* three days in a row over the turn of the year, the list in neither order
C17_Witness ==
    /\ out.op = "calculate_streak"
    /\ [i \in 1..Len(out.before) |-> out.before[i]["date"].s]
          = <<"2023-12-31", "2024-01-01", "2023-12-30">>
    /\ [i \in 1..Len(sessions) |-> sessions[i]["date"].s]
          = <<"2024-01-01", "2023-12-31", "2023-12-30">>
    /\ out.streak = 3

\* a date is in the period that ends on the day today
Within(period, today, date) ==
    LET days == DateOf(today) - DateOf(date)
    IN  CASE period = "daily" -> date = today
          [] period = "weekly" -> days \in 0..7
          [] period = "monthly" -> days \in 0..30
          [] period = "yearly" -> days \in 0..365
          [] OTHER -> FALSE

\* C18: calculate_period_stats keeps for 'daily' exactly the sessions dated
\* today, and for 'weekly', 'monthly', 'yearly' exactly those dated at most
\* 7, 30, 365 days before today; on 2024-01-08 'weekly' keeps 2024-01-01 and
\* leaves out 2023-12-31.
C18_PeriodFilter ==
    out.op = "update_progress" =>
        \A i \in 1..Len(out.rows) :
            LET row == out.rows[i]
                kept == {row.data[j].date : j \in 1..Len(row.data)}
            IN  /\ kept = {d \in DateTexts(sessions) : Within(row.period, row.today, d)}
                /\ (row.period = "weekly" /\ row.today = "2024-01-08") =>
                      /\ "2024-01-01" \in DateTexts(sessions) => "2024-01-01" \in kept
                      /\ "2023-12-31" \notin kept

\* both days of the example are in the collection
C18_Witness ==
    /\ out.op = "update_progress"
    /\ {"2024-01-01", "2023-12-31", "2023-01-08"} \subseteq DateTexts(sessions)
    /\ out.rows[2].period = "weekly"
    /\ out.rows[2].today = "2024-01-08"
    /\ Len(out.rows[2].data) = 1
    /\ out.rows[2].data[1].date = "2024-01-01"
    /\ Len(out.rows[3].data) = 2
    /\ Len(out.rows[4].data) = 3

\* the cells of a bar: the characters between "[" and "]"
Cells(bar) ==
    LET close == CHOOSE i \in 1..Len(bar) : Char(bar, i) = "]"
    IN  SubSeq(bar, 2, close - 1)

\* C19: a bar has exactly width (20) cells, the first
\* min(floor(percent * 20 / 100), 20) of them filled and the others empty,
\* also when the percentage is above 100.
C19_WidthCells ==
    out.op = "update_progress" =>
        \A i \in 1..Len(out.rows) :
            LET row == out.rows[i]
                filled == Min((row.percentage.num * 20) \div (row.percentage.den * 100), 20)
            IN  row.data # <<>> =>
                    /\ Len(Cells(row.bar)) = 20
                    /\ Cells(row.bar) = Repeat("#", filled) \o Repeat(".", 20 - filled)

\* C20: computing the statistics (calculate_streak, calculate_period_stats,
\* calculate_progress) leaves the session collection as it was, the order of
\* its elements included.
C20_StatsLeaveCollection ==
    [][(UpdateStreak \/ UpdateProgress) => sessions' = sessions]_vars

RECURSIVE Gcd(_, _)
Gcd(a, b) == IF b = 0 THEN a ELSE Gcd(b, a % b)

\* a fraction in lowest terms
Lowest(a, b) == [num |-> a \div Gcd(a, b), den |-> b \div Gcd(a, b)]

\* a fraction num/den equals a/b
SameFraction(f, a, b) == f.den # 0 /\ b # 0 /\ Lowest(f.num, f.den) = Lowest(a, b)

\* the goal of a period in seconds: 5, 25, 100 and 1200 hours
GoalSeconds(period) ==
    CASE period = "daily" -> 5 * 3600
      [] period = "weekly" -> 25 * 3600
      [] period = "monthly" -> 100 * 3600
      [] period = "yearly" -> 1200 * 3600

\* C21: calculate_progress returns 100 * total / goalSeconds for the four
\* periods (daily with 18000 seconds gives 100), 0 for any other period name,
\* and goes above 100 when the total is above the goal.
C21_Progress ==
    out.op = "calculate_progress" =>
        /\ out.period_type \in {"daily", "weekly", "monthly", "yearly"} =>
              SameFraction(out.percentage, 100 * out.total, GoalSeconds(out.period_type))
        /\ out.period_type \notin {"daily", "weekly", "monthly", "yearly"} =>
              SameFraction(out.percentage, 0, 1)
        /\ (out.period_type = "daily" /\ out.total = 18000) =>
              SameFraction(out.percentage, 100, 1)
        /\ (out.period_type = "daily" /\ out.total = 27000) =>
              SameFraction(out.percentage, 150, 1)

\* a total above the daily goal, and a period that is none of the four
C21_Witness ==
    /\ out.op = "calculate_progress"
    /\ out.period_type = "daily"
    /\ out.total = 27000
    /\ out.percentage.num = 150 * out.percentage.den

\* the sessions of a list that are in the period ending on the day today
KeptSessions(list, period, today) ==
    SelectSeq(list, LAMBDA session : Within(period, today, session["date"].s))

RECURSIVE TotalOn(_, _)
\* the durations of the sessions of a list dated date, added up
TotalOn(list, date) ==
    IF list = <<>> THEN 0
    ELSE (IF list[1]["date"].s = date THEN list[1]["duration"].n ELSE 0)
         + TotalOn(Tail(list), date)

\* C23: the result of calculate_period_stats has exactly one entry for each
\* date among the kept sessions, and its value is the sum of the durations of
\* all kept sessions of that date, sessions that are equal counted each.
C23_PerDateSum ==
    out.op = "update_progress" =>
        \A i \in 1..Len(out.rows) :
            LET data == out.rows[i].data
                kept == KeptSessions(sessions, out.rows[i].period, out.rows[i].today)
            IN  /\ \A j, k \in 1..Len(data) : data[j].date = data[k].date => j = k
                /\ {data[j].date : j \in 1..Len(data)} = DateTexts(kept)
                /\ \A j \in 1..Len(data) : data[j].duration = TotalOn(kept, data[j].date)

\* two equal sessions of one day and one of another day, both days kept
C23_Witness ==
    /\ out.op = "update_progress"
    /\ Len(sessions) = 3
    /\ sessions[1] = sessions[3]
    /\ sessions[1] # sessions[2]
    /\ Len(out.rows[2].data) = 2
    /\ out.rows[2].data[1].duration = 18000
    /\ out.rows[2].data[2].duration = 9000

\* ------------------------------------------------------------------------
\* CountdownTimer: the text of a tick
\* ------------------------------------------------------------------------
\* a number below 100 in two digits
TwoDigits(n) == Digit[(n \div 10) + 1] \o Digit[(n % 10) + 1]

\* the hours, minutes and seconds of a count of seconds
HoursOf(n) == n \div 3600
MinutesOf(n) == (n - 3600 * HoursOf(n)) \div 60
SecondsOf(n) == n - 3600 * HoursOf(n) - 60 * MinutesOf(n)

\* the texts given to update_callback so far
Updates == {calls[i].arg : i \in {j \in 1..Len(calls) : calls[j].kind = "update"}}

\* C22 as stated: the remaining seconds are rendered H:MM:SS, the hours
\* without padding, so that one second remaining is delivered as "0:00:01".
C22_HoursUnpadded ==
    \A text \in Updates :
        /\ text = Decimal(HoursOf(countdown.total_seconds)) \o ":"
                  \o TwoDigits(MinutesOf(countdown.total_seconds)) \o ":"
                  \o TwoDigits(SecondsOf(countdown.total_seconds))
        /\ countdown.total_seconds = 1 => text = "0:00:01"

\* C22 amended: the remaining seconds are rendered HH:MM:SS, the hours
\* padded with a zero to two digits and wider from 100 hours on, minutes and
\* seconds in two digits; one second remaining is delivered as "00:00:01".
C22_HoursPadded ==
    \A text \in Updates :
        /\ text = (IF HoursOf(countdown.total_seconds) < 10 THEN "0" ELSE "")
                  \o Decimal(HoursOf(countdown.total_seconds)) \o ":"
                  \o TwoDigits(MinutesOf(countdown.total_seconds)) \o ":"
                  \o TwoDigits(SecondsOf(countdown.total_seconds))
        /\ countdown.total_seconds = 1 => text = "00:00:01"

\* the tick of one second remaining has been delivered
C22_Witness ==
    /\ countdown.total_seconds = 1
    /\ ctl[1].arg = <<0, 0, 2>>
    /\ Updates = {"00:00:01"}

\* ------------------------------------------------------------------------
\* CountdownTimer: cancellation
\* ------------------------------------------------------------------------
\* the stop() that ended the last start(): the first stop() after it
StopIndex ==
    CHOOSE i \in 1..Len(ctl) :
        /\ ctl[i].op = "stop"
        /\ \A j \in (i + 1)..Len(ctl) : ctl[j].op # "start"
        /\ \A j \in 1..(i - 1) :
              ctl[j].op = "stop" => \E k \in (j + 1)..(i - 1) : ctl[k].op = "start"

\* update_callback invocations and the fall of total_seconds since that stop()
UpdatesSinceStop ==
    Cardinality({i \in (ctl[StopIndex].arg[1] + 1)..Len(calls) : calls[i].kind = "update"})
DecrementSinceStop == ctl[StopIndex].arg[2] - countdown.total_seconds

\* every thread that was started has left run()
AllExited == \A t \in ThreadIds : cthreads[t].pc \in {"unborn", "done"}

\* after stop(), unless start() is called again, every thread leaves run()
C24_Exits == StopReturned ~> (AllExited \/ ~StopReturned)

\* after stop(), and until start() is called again, total_seconds falls by at
\* most one and update_callback is invoked at most once
C24_OneMoreTick ==
    StopReturned => (UpdatesSinceStop <= 1 /\ DecrementSinceStop <= 1)

\* C24: after stop() on a running countdown, with no start() after it, the
\* cadence ends under fair scheduling, and it has decremented at most once
\* more and invoked update_callback at most once more since the stop().
C24_Cancellation == C24_Exits /\ []C24_OneMoreTick

\* ------------------------------------------------------------------------
\* CountdownTimer: the sign of the remaining time
\* ------------------------------------------------------------------------
\* C26: total_seconds is never negative, and no text of a negative time is
\* given to update_callback, whatever the interleaving of set_time, start,
\* stop and the steps of the threads.
C26_NeverNegative ==
    /\ countdown.total_seconds >= 0
    /\ \A text \in Updates : Char(text, 1) # "-"

\* ------------------------------------------------------------------------
\* Session store: what the file holds
\* ------------------------------------------------------------------------
\* the records load_sessions() would return from the file
Persisted == load_sessions(file).result

\* C25: after a save_session whose write succeeds the file holds the whole
\* collection in its order, sessions that an earlier failed write left in
\* memory included; at all times every persisted record is in the collection,
\* as many times at least as in the file.
C25_WholeStoreRewritten ==
    /\ SaveEnded("none") => (file = FileJson(JsonDump(sessions)) /\ Persisted = sessions)
    /\ \A i \in 1..Len(Persisted) :
          Count(Persisted[i], Persisted) <= Count(Persisted[i], sessions)

\* a record loaded at the start and two sessions saved after it, all three
\* in the file after the last save
C25_Witness ==
    /\ SaveEnded("none")
    /\ Len(sessions) = 3
    /\ sessions[1]["composer"] = PyStr("")
    /\ sessions[2] # sessions[3]
    /\ Persisted = sessions

\* ------------------------------------------------------------------------
\* Metronome: its threads
\* ------------------------------------------------------------------------
\* the threads of the Metronome that have been started and have not ended
LiveTicking == {t \in ThreadIds : mthreads[t].pc \notin {"unborn", "done"}}

\* C27: a Metronome has at most one live thread at any time, and it is the
\* one self.thread names: start() while running starts none, and stop() has
\* joined the earlier thread before a later start() can start another.
C27_OneTickThread ==
    /\ [](Cardinality(LiveTicking) <= 1)
    /\ [](\A t \in LiveTicking : metronome.thread = Some(t))
    /\ [][metronome.running => LiveTicking' \subseteq LiveTicking]_vars

\* the second thread ticking after the first was stopped and joined
C27_Witness ==
    /\ metronome.running
    /\ mthreads[1].pc = "done"
    /\ mthreads[2].pc = "sleep"
    /\ LiveTicking = {2}
    /\ ticks >= 2
====
